---- MODULE Spec2Model ----
(***************************************************************************)
(* A model of tubely's upload handlers:                                    *)
(*   handlerUploadThumbnail            (src/unnamed/part_000)              *)
(*   handlerUploadVideo, first variant (src/handler_upload_video.go)       *)
(*   handlerUploadVideo, with remux    (src/unnamed/part_001)              *)
(* Every handler statement that touches the request, the record store, the *)
(* temp directory, the assets directory or the bucket is one action; the   *)
(* outcome of each external call is drawn with \E.                         *)
(***************************************************************************)
EXTENDS Integers, Sequences, FiniteSets, TLC

VARIABLES
    db,       \* record store: video id -> VideoRecord
    assets,   \* assets directory (cfg.assetsRoot): file name -> "partial" | "complete"
    s3,       \* bucket: the set of object keys written by PutObject
    tmpdir,   \* os.TempDir(): the set of files that exist there
    req,      \* per handler goroutine: the request and the handler's locals
    served,   \* number of requests accepted so far
    conc,     \* TRUE: the server runs handlers concurrently (net/http default)
    env       \* "hostile": clients send anything and external calls may fail;
              \* "nominal": well-formed uploads, external calls succeed

vars == <<db, assets, s3, tmpdir, req, served, conc, env>>

----------------------------------------------------------------------------
(* Bounds of the model *)

NumSlots == 2
MaxUploads == 2

Slots == 1..NumSlots

----------------------------------------------------------------------------
(* Program constants *)

\* var uploadLimit int64 = 1 << 30
uploadLimit == 1073741824
\* const maxMemory int64 = 10 << 20
maxMemory == 10485760
\* r.FormFile parses the form with net/http's defaultMaxMemory, 32 << 20
defaultMaxMemory == 33554432
\* MaxBytesReader was never installed on r.Body
NoLimit == 0

StatusOK == 200
StatusBadRequest == 400
StatusUnauthorized == 401
StatusUnsupportedMediaType == 415
StatusInternalServerError == 500

----------------------------------------------------------------------------
(* Values *)

Nil == "uuid.Nil"
\* a nil *string URL
NULL == [store |-> "nil"]
Users == {"U1", "U2"}
V1 == "V1"

\* Strings the code takes apart are sequences of characters.
EmptyStr == << >>
s_video_mp4 == <<"v","i","d","e","o","/","m","p","4">>
s_VIDEO_MP4 == <<"V","i","d","e","o","/","M","P","4">>
s_video_mp4_param == <<" ","v","i","d","e","o","/","m","p","4",";"," ","a","=","b">>
s_image_png == <<"i","m","a","g","e","/","p","n","g">>
s_IMAGE_PNG == <<"I","M","A","G","E","/","P","N","G">>
s_image_jpeg == <<"i","m","a","g","e","/","j","p","e","g">>
s_image_gif == <<"i","m","a","g","e","/","g","i","f">>
s_video == <<"v","i","d","e","o">>

\* The Content-Type headers a client may declare on the file part.
DeclaredTypes ==
    { s_video_mp4, s_VIDEO_MP4, s_video_mp4_param, s_image_png, s_IMAGE_PNG,
      s_image_jpeg, s_image_gif, s_video, EmptyStr }

\* Sizes of the uploaded file part, in bytes.
Sizes == { maxMemory, maxMemory + 1, uploadLimit + 1 }

Min(a, b) == IF a <= b THEN a ELSE b

----------------------------------------------------------------------------
(* mime.ParseMediaType, as far as the handlers use it: the media type is   *)
(* the text before the first ";", lower-cased and trimmed, and must be     *)
(* token "/" token.  Parameters are not modelled: they never change the    *)
(* media type returned for the headers of DeclaredTypes.                   *)

ToLower(c) ==
    CASE c = "V" -> "v" [] c = "M" -> "m" [] c = "P" -> "p" [] c = "I" -> "i"
      [] c = "A" -> "a" [] c = "G" -> "g" [] c = "E" -> "e" [] c = "N" -> "n"
      [] OTHER -> c

Lower(s) == [i \in DOMAIN s |-> ToLower(s[i])]

\* strings.Cut(s, sep): the text before the first sep (all of s without one)
CutBefore(s, sep) ==
    IF \E i \in DOMAIN s : s[i] = sep
    THEN LET i == CHOOSE k \in DOMAIN s : s[k] = sep /\ \A j \in 1..(k-1) : s[j] # sep
         IN SubSeq(s, 1, i - 1)
    ELSE s

\* the text after the first sep (empty without one)
CutAfter(s, sep) ==
    IF \E i \in DOMAIN s : s[i] = sep
    THEN LET i == CHOOSE k \in DOMAIN s : s[k] = sep /\ \A j \in 1..(k-1) : s[j] # sep
         IN SubSeq(s, i + 1, Len(s))
    ELSE EmptyStr

RECURSIVE TrimLeft(_)
TrimLeft(s) == IF s # EmptyStr /\ Head(s) = " " THEN TrimLeft(Tail(s)) ELSE s

RECURSIVE TrimRight(_)
TrimRight(s) ==
    IF s # EmptyStr /\ s[Len(s)] = " " THEN TrimRight(SubSeq(s, 1, Len(s) - 1)) ELSE s

TrimSpace(s) == TrimRight(TrimLeft(s))

IsToken(s) == s # EmptyStr /\ \A i \in DOMAIN s : s[i] \notin {" ", "/", ";", "="}

\* checkMediaTypeDisposition: nil iff s is token "/" token (or a bare token)
checkMediaTypeDisposition(s) ==
    IF \E i \in DOMAIN s : s[i] = "/"
    THEN IsToken(CutBefore(s, "/")) /\ IsToken(CutAfter(s, "/"))
    ELSE IsToken(s)

ParseMediaType(v) ==
    LET mediatype == TrimSpace(Lower(CutBefore(v, ";")))
    IN IF checkMediaTypeDisposition(mediatype) THEN mediatype ELSE EmptyStr

\* strings.Split(mediaType, "/")[1]
SplitExt(mediaType) == CutAfter(mediaType, "/")

----------------------------------------------------------------------------
(* Records, files and keys *)

\* database.Video: the fields the handlers read and write
VideoRecord(id, owner, thumb, video) ==
    [ID |-> id, UserID |-> owner, ThumbnailURL |-> thumb, VideoURL |-> video]

\* the zero database.Video a failed GetVideo leaves in `video`
ZeroVideo == VideoRecord(Nil, Nil, NULL, NULL)

\* fmt.Sprintf("%v.%s", videoID, ext)
AssetName(videoID, ext) == [id |-> videoID, ext |-> ext]
\* fmt.Sprintf("http://localhost:8091/assets/%v.%s", videoID, ext)
AssetURL(videoID, ext) == [store |-> "assets", key |-> AssetName(videoID, ext)]
\* fmt.Sprintf("%s/%x.mp4", aspectRatio, key)
ObjectKey(aspectRatio, key) == [prefix |-> aspectRatio, hex |-> key]
\* fmt.Sprintf("https://%s.s3.%s.amazonaws.com/%s", bucket, region, filename)
ObjectURL(filename) == [store |-> "s3", key |-> filename]

\* os.CreateTemp("", "tubely-upload.mp4"): a name no other file has
TempName(n) == [base |-> n, suffix |-> ""]
\* filepath + ".processing"
ProcessingName(filepath) == [filepath EXCEPT !.suffix = ".processing"]
\* the empty path "" returned with an error
NoPath == [base |-> 0, suffix |-> ""]

\* what the handler has done so far, in order
Event(e, code) == [e |-> e, code |-> code]

\* what ffprobe did: its exit status, whether stdout is JSON, and the
\* display_aspect_ratio of each element of "streams" ("" when absent)
ProbeRun(exit, json, streams) == [exit |-> exit, json |-> json, streams |-> streams]

\* ffprobe has not run
NoProbe == ProbeRun(-1, FALSE, << >>)

Kinds == {"thumbnail", "video_v1", "video_v2"}

IdleReq ==
    [ pc |-> "idle", kind |-> "none", serial |-> 0, userID |-> Nil,
      bodyLimit |-> NoLimit, video |-> ZeroVideo, declared |-> EmptyStr,
      mediaType |-> EmptyStr, size |-> 0, mem |-> 0, spilled |-> 0, data |-> 0,
      tmpFile |-> NoPath, staged |-> 0, probe |-> NoProbe, aspectRatio |-> "",
      processedFilename |-> NoPath, body |-> "none", deferTmp |-> FALSE, deferProcessed |-> FALSE,
      ev |-> << >> ]

----------------------------------------------------------------------------
(* Helpers shared by the handlers *)

\* respondWithError / respondWithJSON: one more response written to w
Respond(rq, code) == [rq EXCEPT !.ev = Append(@, Event("respond", code))]

Did(rq, e) == [rq EXCEPT !.ev = Append(@, Event(e, 0))]

Goto(rq, pc) == [rq EXCEPT !.pc = pc]

\* the handler returns: pc "done"
Return(rq) == [rq EXCEPT !.pc = "done"]

\* the handler panics; net/http recovers and drops the connection
Panic(rq) == [Did(rq, "panic") EXCEPT !.pc = "done"]

\* the deferred os.Remove calls that run when the handler returns or panics
Deferred(rq) ==
    (IF rq.deferTmp THEN {rq.tmpFile} ELSE {})
    \cup (IF rq.deferProcessed THEN {rq.processedFilename} ELSE {})

Hostile == env = "hostile"

\* outcomes of an external call (store, disk, bucket)
Outcomes == IF Hostile THEN {"ok", "err"} ELSE {"ok"}

\* whether the path id parses, the form is well formed, the part is present
Flags == IF Hostile THEN BOOLEAN ELSE {TRUE}

\* who the bearer token resolves to (Nil: no valid token)
Callers == IF Hostile THEN Users \cup {Nil} ELSE Users

\* the Content-Type and the size of the uploaded part
ClientTypes == IF Hostile THEN DeclaredTypes ELSE {s_video_mp4, s_image_png, s_image_jpeg}
ClientSizes == IF Hostile THEN Sizes ELSE {maxMemory}

\* http.MaxBytesReader(w, r.Body, n): a reader that stops after n bytes
MaxBytesReader(body, n) == n

\* bytes a reader of r.Body can obtain from a part of `size` bytes
Readable(rq) == IF rq.bodyLimit = NoLimit THEN rq.size ELSE Min(rq.size, rq.bodyLimit)

\* Request.ParseMultipartForm(maxMem): a file part of at most maxMem bytes is
\* held in memory, a larger one is written whole to a multipart-* temp file
ParseMultipartForm(rq, size, maxMem) ==
    LET r1 == [rq EXCEPT !.size = size]
        n == Readable(r1)
    IN [Did(r1, "parse") EXCEPT !.mem = IF n <= maxMem THEN n ELSE 0,
                                !.spilled = IF n <= maxMem THEN 0 ELSE n]

\* cfg.db.GetVideo(videoID)
GetVideo(id) == db[id]

\* cfg.db.UpdateVideo(video): the whole record replaces the stored one with
\* the same ID; a record with an unknown ID changes nothing
UpdateVideo(video) ==
    IF video.ID \in DOMAIN db THEN [db EXCEPT ![video.ID] = video] ELSE db

----------------------------------------------------------------------------
Init ==
    /\ db = [v \in {V1} |-> VideoRecord(V1, "U1", NULL, NULL)]
    /\ assets = << >>
    /\ s3 = {}
    /\ tmpdir = {}
    /\ req = [s \in Slots |-> IdleReq]
    /\ served = 0
    /\ conc = FALSE
    /\ env = "hostile"

InitConc ==
    /\ db = [v \in {V1} |-> VideoRecord(V1, "U1", NULL, NULL)]
    /\ assets = << >>
    /\ s3 = {}
    /\ tmpdir = {}
    /\ req = [s \in Slots |-> IdleReq]
    /\ served = 0
    /\ conc = TRUE
    /\ env = "nominal"

Running(s) == req[s].pc \notin {"idle", "done"}

\* the server accepts a request and starts its handler on the first free
\* goroutine slot; the locals of handlers that have returned are gone
Accept(s) ==
    /\ ~Running(s)
    /\ \A o \in Slots : o < s => Running(o)
    /\ served < MaxUploads
    /\ conc \/ \A o \in Slots : ~Running(o)
    /\ \E k \in Kinds :
         req' = [o \in Slots |->
                   IF o = s
                   THEN [IdleReq EXCEPT !.kind = k, !.serial = served + 1,
                                        !.pc = IF k = "thumbnail" THEN "id" ELSE "limit"]
                   ELSE IF Running(o) THEN req[o] ELSE IdleReq]
    /\ served' = served + 1
    /\ UNCHANGED <<db, assets, s3, tmpdir, conc, env>>

\* http.MaxBytesReader(w, r.Body, uploadLimit): the result is dropped, r.Body
\* stays the unlimited body
VideoMaxBytes(s) ==
    /\ req[s].pc = "limit"
    /\ LET limited == MaxBytesReader(req[s].bodyLimit, uploadLimit)
       IN req' = [req EXCEPT ![s] = Goto(@, "id")]
    /\ UNCHANGED <<db, assets, s3, tmpdir, served, conc, env>>

\* uuid.Parse(r.PathValue("videoID")) / getVideoID
ParseVideoID(s) ==
    /\ req[s].pc = "id"
    /\ \E valid \in Flags :
         req' = [req EXCEPT ![s] =
                   IF valid THEN Goto(@, "auth")
                   ELSE Return(Respond(@, StatusBadRequest))]
    /\ UNCHANGED <<db, assets, s3, tmpdir, served, conc, env>>

\* auth.GetBearerToken + auth.ValidateJWT / getUserID
Authenticate(s) ==
    /\ req[s].pc = "auth"
    /\ \E u \in Callers :
         req' = [req EXCEPT ![s] =
                   IF u = Nil THEN Return(Respond(@, StatusUnauthorized))
                   ELSE Goto([@ EXCEPT !.userID = u],
                             IF @.kind = "thumbnail" THEN "t_parse" ELSE "v_get")]
    /\ UNCHANGED <<db, assets, s3, tmpdir, served, conc, env>>

----------------------------------------------------------------------------
(* handlerUploadThumbnail *)

\* r.ParseMultipartForm(maxMemory)
ThumbParseForm(s) ==
    /\ req[s].pc = "t_parse"
    /\ \E wellFormed \in Flags, size \in ClientSizes :
         req' = [req EXCEPT ![s] =
                   IF wellFormed THEN Goto(ParseMultipartForm(@, size, maxMemory), "t_form")
                   ELSE Return(Respond(@, StatusBadRequest))]
    /\ UNCHANGED <<db, assets, s3, tmpdir, served, conc, env>>

\* r.FormFile("thumbnail")
ThumbFormFile(s) ==
    /\ req[s].pc = "t_form"
    /\ \E present \in Flags, d \in ClientTypes :
         req' = [req EXCEPT ![s] =
                   IF present THEN Goto([@ EXCEPT !.declared = d], "t_type")
                   ELSE Return(Respond(@, StatusInternalServerError))]
    /\ UNCHANGED <<db, assets, s3, tmpdir, served, conc, env>>

\* mediaType != "image/jpeg" && mediaType != "image/png"
ThumbTypeAllowed(mediaType) == mediaType = s_image_jpeg \/ mediaType = s_image_png

\* mime.ParseMediaType(header.Header.Get("Content-Type")) and the allow-list
ThumbCheckType(s) ==
    /\ req[s].pc = "t_type"
    /\ LET mediaType == ParseMediaType(req[s].declared)
       IN req' = [req EXCEPT ![s] =
                    IF ThumbTypeAllowed(mediaType)
                    THEN Goto([Did(@, "type_check") EXCEPT !.mediaType = mediaType], "t_read")
                    ELSE Return(Respond([Did(@, "type_check") EXCEPT !.mediaType = mediaType],
                                        StatusUnsupportedMediaType))]
    /\ UNCHANGED <<db, assets, s3, tmpdir, served, conc, env>>

\* io.ReadAll(file): the whole part, from memory or from the spill file
ThumbReadAll(s) ==
    /\ req[s].pc = "t_read"
    /\ \E o \in Outcomes :
         req' = [req EXCEPT ![s] =
                   IF o = "ok"
                   THEN Goto([Did(@, "readall") EXCEPT !.data = req[s].mem + req[s].spilled], "t_get")
                   ELSE Return(Respond(@, StatusInternalServerError))]
    /\ UNCHANGED <<db, assets, s3, tmpdir, served, conc, env>>

\* video, err := cfg.db.GetVideo(videoID); on error respond and return
ThumbGetVideo(s) ==
    /\ req[s].pc = "t_get"
    /\ \E o \in Outcomes :
         req' = [req EXCEPT ![s] =
                   IF o = "ok"
                   THEN Goto([Did(@, "get") EXCEPT !.video = GetVideo(V1)], "t_owner")
                   ELSE Return(Respond(@, StatusInternalServerError))]
    /\ UNCHANGED <<db, assets, s3, tmpdir, served, conc, env>>

\* if video.UserID != userID { respond 401; return }
ThumbCheckOwner(s) ==
    /\ req[s].pc = "t_owner"
    /\ req' = [req EXCEPT ![s] =
                 IF @.video.UserID # @.userID
                 THEN Return(Respond(Did(@, "owner_mismatch"), StatusUnauthorized))
                 ELSE Goto(Did(@, "owner_ok"), "t_create")]
    /\ UNCHANGED <<db, assets, s3, tmpdir, served, conc, env>>

\* os.Create(filepath.Join(cfg.assetsRoot, filename)): creates or truncates
ThumbCreate(s) ==
    /\ req[s].pc = "t_create"
    /\ LET filename == AssetName(V1, SplitExt(req[s].mediaType))
       IN \E o \in Outcomes :
            IF o = "ok"
            THEN /\ assets' = (filename :> "partial") @@ assets
                 /\ req' = [req EXCEPT ![s] = Goto(Did(@, "blob_create"), "t_copy")]
            ELSE /\ assets' = assets
                 /\ req' = [req EXCEPT ![s] = Return(Respond(@, StatusInternalServerError))]
    /\ UNCHANGED <<db, s3, tmpdir, served, conc, env>>

\* io.Copy(f, bytes.NewReader(data))
ThumbCopy(s) ==
    /\ req[s].pc = "t_copy"
    /\ LET filename == AssetName(V1, SplitExt(req[s].mediaType))
       IN \E o \in Outcomes :
            IF o = "ok"
            THEN /\ assets' = (filename :> "complete") @@ assets
                 /\ req' = [req EXCEPT ![s] = Goto(Did(@, "blob_write"), "t_update")]
            ELSE /\ assets' = assets
                 /\ req' = [req EXCEPT ![s] = Return(Respond(@, StatusInternalServerError))]
    /\ UNCHANGED <<db, s3, tmpdir, served, conc, env>>

\* video.ThumbnailURL = &url; cfg.db.UpdateVideo(video)
ThumbUpdate(s) ==
    /\ req[s].pc = "t_update"
    /\ LET url == AssetURL(V1, SplitExt(req[s].mediaType))
           video == [req[s].video EXCEPT !.ThumbnailURL = url]
       IN \E o \in Outcomes :
            IF o = "ok"
            THEN /\ db' = UpdateVideo(video)
                 /\ req' = [req EXCEPT ![s] = Goto([Did(@, "update") EXCEPT !.video = video], "t_ok")]
            ELSE /\ db' = db
                 /\ req' = [req EXCEPT ![s] =
                              Return(Respond([@ EXCEPT !.video = video], StatusInternalServerError))]
    /\ UNCHANGED <<assets, s3, tmpdir, served, conc, env>>

\* respondWithJSON(w, http.StatusOK, video)
ThumbRespond(s) ==
    /\ req[s].pc = "t_ok"
    /\ req' = [req EXCEPT ![s] = Return(Respond(@, StatusOK))]
    /\ UNCHANGED <<db, assets, s3, tmpdir, served, conc, env>>

----------------------------------------------------------------------------
(* getVideoAspectRatio and processVideoForFastStart *)

GoodProbeRuns ==
    { ProbeRun(0, TRUE, <<"16:9">>), ProbeRun(0, TRUE, <<"9:16">>),
      ProbeRun(0, TRUE, <<"4:3">>), ProbeRun(0, TRUE, <<"">>),
      ProbeRun(0, TRUE, <<"4:3", "16:9">>) }

ProbeRuns ==
    IF Hostile
    THEN GoodProbeRuns \cup
         { ProbeRun(1, FALSE, << >>), ProbeRun(0, FALSE, << >>), ProbeRun(0, TRUE, << >>) }
    ELSE GoodProbeRuns

\* ratio := data.Streams[0].DisplayAspectRatio and the three-way branch
Classify(ratio) ==
    IF ratio = "16:9" THEN "landscape"
    ELSE IF ratio = "9:16" THEN "portrait"
    ELSE "other"

\* getVideoAspectRatio(filePath): the bucket and whether err != nil, or a
\* panic (index out of range) when the parsed streams list is empty
getVideoAspectRatio(run) ==
    IF run.exit # 0 THEN [ratio |-> "", err |-> TRUE, panic |-> FALSE]
    ELSE IF ~run.json THEN [ratio |-> "", err |-> TRUE, panic |-> FALSE]
    ELSE IF Len(run.streams) = 0 THEN [ratio |-> "", err |-> FALSE, panic |-> TRUE]
    ELSE [ratio |-> Classify(run.streams[1]), err |-> FALSE, panic |-> FALSE]

\* what ffmpeg did: exit 0 with the output written, or a failure that left
\* no output file or a partial one
RemuxRuns == IF Hostile THEN {"ok", "failed", "failed_partial"} ELSE {"ok"}

\* processVideoForFastStart(filepath): the path returned ("" with an error)
processVideoForFastStart(filepath, run) ==
    IF run = "ok" THEN ProcessingName(filepath) ELSE NoPath

\* the files ffmpeg leaves in the temp directory
RemuxOutput(filepath, run) ==
    IF run = "failed" THEN {} ELSE {ProcessingName(filepath)}

----------------------------------------------------------------------------
(* handlerUploadVideo, both variants *)

\* video, err := cfg.db.GetVideo(videoID); on error respond, no return
VideoGetVideo(s) ==
    /\ req[s].pc = "v_get"
    /\ \E o \in Outcomes :
         req' = [req EXCEPT ![s] =
                   IF o = "ok"
                   THEN Goto([Did(@, "get") EXCEPT !.video = GetVideo(V1)], "v_owner")
                   ELSE Goto(Respond(@, StatusInternalServerError), "v_owner")]
    /\ UNCHANGED <<db, assets, s3, tmpdir, served, conc, env>>

\* if video.UserID != userID { respond 401 }, no return
VideoCheckOwner(s) ==
    /\ req[s].pc = "v_owner"
    /\ req' = [req EXCEPT ![s] =
                 IF @.video.UserID # @.userID
                 THEN Goto(Respond(Did(@, "owner_mismatch"), StatusUnauthorized), "v_form")
                 ELSE Goto(Did(@, "owner_ok"), "v_form")]
    /\ UNCHANGED <<db, assets, s3, tmpdir, served, conc, env>>

\* r.FormFile("video"): parses the multipart body, then looks the part up.
\* On error the second variant responds 500 and returns; the first variant
\* runs `defer file.Close()` on the nil file first, which panics.
VideoFormFile(s) ==
    /\ req[s].pc = "v_form"
    /\ \E present \in Flags, size \in ClientSizes, d \in ClientTypes :
         req' = [req EXCEPT ![s] =
                   IF present
                   THEN Goto([ParseMultipartForm(@, size, defaultMaxMemory)
                                EXCEPT !.declared = d], "v_type")
                   ELSE IF @.kind = "video_v1" THEN Panic(@)
                   ELSE Return(Respond(@, StatusInternalServerError))]
    /\ UNCHANGED <<db, assets, s3, tmpdir, served, conc, env>>

\* a looser check: any media type whose major type is "video"
VideoTypeAllowed_MajorOnly(mediaType) == CutBefore(mediaType, "/") = s_video

\* mediaType != "video/mp4"
VideoTypeAllowed(mediaType) == mediaType = s_video_mp4

\* mime.ParseMediaType(header.Header.Get("Content-Type")) and the allow-list
VideoCheckType(s) ==
    /\ req[s].pc = "v_type"
    /\ LET mediaType == ParseMediaType(req[s].declared)
       IN req' = [req EXCEPT ![s] =
                    IF VideoTypeAllowed(mediaType)
                    THEN Goto([Did(@, "type_check") EXCEPT !.mediaType = mediaType], "v_tmp")
                    ELSE Return(Respond([Did(@, "type_check") EXCEPT !.mediaType = mediaType],
                                        StatusUnsupportedMediaType))]
    /\ UNCHANGED <<db, assets, s3, tmpdir, served, conc, env>>

\* os.CreateTemp; on error respond 500, no return: tmpFile.Name() on the nil
\* file then panics.  Otherwise defer os.Remove(tmpFile.Name()).
VideoCreateTemp(s) ==
    /\ req[s].pc = "v_tmp"
    /\ \E o \in Outcomes :
         IF o = "ok"
         THEN /\ tmpdir' = tmpdir \cup {TempName(req[s].serial)}
              /\ req' = [req EXCEPT ![s] =
                           Goto([Did(@, "tmp_create") EXCEPT
                                   !.tmpFile = TempName(req[s].serial),
                                   !.deferTmp = TRUE], "v_copy")]
         ELSE /\ tmpdir' = tmpdir
              /\ req' = [req EXCEPT ![s] = Panic(Respond(@, StatusInternalServerError))]
    /\ UNCHANGED <<db, assets, s3, served, conc, env>>

\* io.Copy(tmpFile, file); on error respond 500 and return
VideoCopy(s) ==
    /\ req[s].pc = "v_copy"
    /\ \E o \in Outcomes :
         IF o = "ok"
         THEN /\ tmpdir' = tmpdir
              /\ req' = [req EXCEPT ![s] =
                           Goto([Did(@, "tmp_write") EXCEPT !.staged = Readable(req[s])],
                                "v_probe")]
         ELSE /\ tmpdir' = tmpdir \ Deferred(req[s])
              /\ req' = [req EXCEPT ![s] = Return(Respond(@, StatusInternalServerError))]
    /\ UNCHANGED <<db, assets, s3, served, conc, env>>

\* aspectRatio, err := getVideoAspectRatio(tmpFile.Name()).  The first variant
\* never looks at err; the second responds 500 and goes on.
VideoProbe(s) ==
    /\ req[s].pc = "v_probe"
    /\ \E run \in ProbeRuns :
         LET got == getVideoAspectRatio(run)
             r1 == [Did(req[s], "probe") EXCEPT !.probe = run, !.aspectRatio = got.ratio]
             next == IF r1.kind = "video_v1" THEN "v_put" ELSE "v_remux"
         IN IF got.panic
            THEN /\ tmpdir' = tmpdir \ Deferred(req[s])
                 /\ req' = [req EXCEPT ![s] = Panic(r1)]
            ELSE /\ tmpdir' = tmpdir
                 /\ req' = [req EXCEPT ![s] =
                              IF got.err /\ r1.kind = "video_v2"
                              THEN Goto(Respond(r1, StatusInternalServerError), next)
                              ELSE Goto(r1, next)]
    /\ UNCHANGED <<db, assets, s3, served, conc, env>>

\* processedFilename, err := processVideoForFastStart(tmpFile.Name()); on
\* error respond 500, no return
VideoRemux(s) ==
    /\ req[s].pc = "v_remux"
    /\ \E run \in RemuxRuns :
         LET path == processVideoForFastStart(req[s].tmpFile, run)
             r1 == [Did(req[s], "remux") EXCEPT !.processedFilename = path]
         IN /\ tmpdir' = tmpdir \cup RemuxOutput(req[s].tmpFile, run)
            /\ req' = [req EXCEPT ![s] =
                         IF path = NoPath
                         THEN Goto(Respond(r1, StatusInternalServerError), "v_open")
                         ELSE Goto(r1, "v_open")]
    /\ UNCHANGED <<db, assets, s3, served, conc, env>>

\* body, err := os.Open(processedFilename); on error respond 500, no return;
\* defer os.Remove(processedFilename)
VideoOpen(s) ==
    /\ req[s].pc = "v_open"
    /\ \E o \in Outcomes :
         LET opened == o = "ok" /\ req[s].processedFilename \in tmpdir
             r1 == [req[s] EXCEPT !.body = IF opened THEN "open" ELSE "nil",
                                  !.deferProcessed = TRUE]
         IN req' = [req EXCEPT ![s] =
                      IF opened THEN Goto(Did(r1, "open"), "v_put")
                      ELSE Goto(Respond(r1, StatusInternalServerError), "v_put")]
    /\ UNCHANGED <<db, assets, s3, tmpdir, served, conc, env>>

\* the reader handed to PutObject: tmpFile (first variant) or body (second);
\* a nil *os.File body fails every Read and Seek, so PutObject returns an error
PutBody(rq) == IF rq.kind = "video_v1" THEN "open" ELSE rq.body

\* rand.Read(key); cfg.s3Client.PutObject(...); on error respond 500, return
VideoPut(s) ==
    /\ req[s].pc = "v_put"
    /\ LET filename == ObjectKey(req[s].aspectRatio, req[s].serial)
       IN \E o \in Outcomes :
            IF o = "ok" /\ PutBody(req[s]) = "open"
            THEN /\ s3' = s3 \cup {filename}
                 /\ tmpdir' = tmpdir
                 /\ req' = [req EXCEPT ![s] = Goto(Did(@, "put"), "v_update")]
            ELSE /\ s3' = s3
                 /\ tmpdir' = tmpdir \ Deferred(req[s])
                 /\ req' = [req EXCEPT ![s] = Return(Respond(@, StatusInternalServerError))]
    /\ UNCHANGED <<db, assets, served, conc, env>>

\* video.VideoURL = &videoUrl; cfg.db.UpdateVideo(video)
VideoUpdate(s) ==
    /\ req[s].pc = "v_update"
    /\ LET url == ObjectURL(ObjectKey(req[s].aspectRatio, req[s].serial))
           video == [req[s].video EXCEPT !.VideoURL = url]
       IN \E o \in Outcomes :
            IF o = "ok"
            THEN /\ db' = UpdateVideo(video)
                 /\ tmpdir' = tmpdir
                 /\ req' = [req EXCEPT ![s] = Goto([Did(@, "update") EXCEPT !.video = video], "v_ok")]
            ELSE /\ db' = db
                 /\ tmpdir' = tmpdir \ Deferred(req[s])
                 /\ req' = [req EXCEPT ![s] =
                              Return(Respond([@ EXCEPT !.video = video], StatusInternalServerError))]
    /\ UNCHANGED <<assets, s3, served, conc, env>>

\* respondWithJSON(w, http.StatusOK, video), then the deferred removals
VideoRespond(s) ==
    /\ req[s].pc = "v_ok"
    /\ tmpdir' = tmpdir \ Deferred(req[s])
    /\ req' = [req EXCEPT ![s] = Return(Respond(@, StatusOK))]
    /\ UNCHANGED <<db, assets, s3, served, conc, env>>

----------------------------------------------------------------------------
Next ==
    \E s \in Slots :
        \/ Accept(s)
        \/ VideoMaxBytes(s)
        \/ ParseVideoID(s)
        \/ Authenticate(s)
        \/ ThumbParseForm(s)
        \/ ThumbFormFile(s)
        \/ ThumbCheckType(s)
        \/ ThumbReadAll(s)
        \/ ThumbGetVideo(s)
        \/ ThumbCheckOwner(s)
        \/ ThumbCreate(s)
        \/ ThumbCopy(s)
        \/ ThumbUpdate(s)
        \/ ThumbRespond(s)
        \/ VideoGetVideo(s)
        \/ VideoCheckOwner(s)
        \/ VideoFormFile(s)
        \/ VideoCheckType(s)
        \/ VideoCreateTemp(s)
        \/ VideoCopy(s)
        \/ VideoProbe(s)
        \/ VideoRemux(s)
        \/ VideoOpen(s)
        \/ VideoPut(s)
        \/ VideoUpdate(s)
        \/ VideoRespond(s)

\* handlers run one request at a time, in a hostile environment
Spec == Init /\ [][Next]_vars

\* handlers of concurrent requests interleave, in a nominal environment
SpecConc == InitConc /\ [][Next]_vars

----------------------------------------------------------------------------
(* Reading a handler's history *)

Has(rq, e) == \E i \in DOMAIN rq.ev : rq.ev[i].e = e

\* some event of `later` follows an event `e` in the handler's history
FollowedBy(rq, e, later) ==
    \E i, j \in DOMAIN rq.ev : i < j /\ rq.ev[i].e = e /\ rq.ev[j].e \in later

IsResponse(x) == x.e = "respond"
IsErrorResponse(x) == x.e = "respond" /\ x.code # StatusOK

\* the status codes written to w, in order; the client sees the first
Responses(rq) ==
    LET rs == SelectSeq(rq.ev, IsResponse) IN [i \in DOMAIN rs |-> rs[i].code]

IsVideo(rq) == rq.kind \in {"video_v1", "video_v2"}

\* file created in the assets directory, S3 PutObject
BlobWrites == {"blob_create", "blob_write", "put"}
\* UpdateVideo
RecordWrites == {"update"}
\* body buffering, temp files, external processes
Staging == {"parse", "readall", "tmp_create", "tmp_write", "probe", "remux"}

\* the size ceiling of the asset kind
Ceiling(rq) == IF rq.kind = "thumbnail" THEN maxMemory ELSE uploadLimit

----------------------------------------------------------------------------
(* C1: a request whose user differs from the owner of the fetched record   *)
(* writes no blob and does not update the record at any later point.       *)
C1_MismatchWritesNothing ==
    \A s \in Slots :
        Has(req[s], "get")
            => ~FollowedBy(req[s], "owner_mismatch", BlobWrites \cup RecordWrites)

(* C2: the ownership check has passed before the first staging step or     *)
(* externally visible side effect of the request.                          *)
C2_OwnerCheckFirst ==
    \A s \in Slots : \A j \in DOMAIN req[s].ev :
        req[s].ev[j].e \in Staging \cup BlobWrites \cup RecordWrites
            => \E i \in 1..(j-1) : req[s].ev[i].e = "owner_ok"

(* C3: no partial success: once an error response has been written the     *)
(* request publishes no blob, updates no record and writes no further      *)
(* success response; a finished request either answered 200 alone with the *)
(* record carrying its URL, or answered an error and updated nothing.      *)
C3_NoPartialSuccess ==
    \A s \in Slots :
        /\ \A i, j \in DOMAIN req[s].ev :
             (i < j /\ IsErrorResponse(req[s].ev[i]))
                => /\ req[s].ev[j].e \notin BlobWrites \cup RecordWrites
                   /\ req[s].ev[j] # Event("respond", StatusOK)
        /\ (req[s].pc = "done" /\ Has(req[s], "update"))
             => Responses(req[s]) = <<StatusOK>>

(* C4: publish-before-commit: in every reachable state (so also where a    *)
(* handler stops for good) each URL on the stored record refers to a blob  *)
(* that is completely written.                                             *)
C4_RecordRefersToCompleteBlob ==
    \A v \in DOMAIN db :
        /\ db[v].ThumbnailURL # NULL
             => /\ db[v].ThumbnailURL.key \in DOMAIN assets
                /\ assets[db[v].ThumbnailURL.key] = "complete"
        /\ db[v].VideoURL # NULL => db[v].VideoURL.key \in s3

\* the ordering half of C4 alone: UpdateVideo only after this request's blob
\* write returned success
C4_UpdateAfterBlobWrite ==
    \A s \in Slots : \A j \in DOMAIN req[s].ev :
        req[s].ev[j].e = "update"
            => \E i \in 1..(j-1) : req[s].ev[i].e \in {"blob_write", "put"}

(* C5: when a video handler has returned, every temp file the request      *)
(* created (the upload file and "<tmp>.processing") has been removed.      *)
C5_TempFilesRemoved ==
    \A s \in Slots :
        (IsVideo(req[s]) /\ req[s].pc = "done")
            => \A f \in tmpdir : f.base # req[s].serial

\* ffprobe has run and getVideoAspectRatio returned an error
ProbeFailed(rq) == rq.probe # NoProbe /\ (rq.probe.exit # 0 \/ ~rq.probe.json)

(* C6: when getVideoAspectRatio returns an error the request fails with an *)
(* error response, runs no remux, PutObject or UpdateVideo; no object key  *)
(* has an empty or default aspect prefix.                                  *)
C6_ProbeFailureStops ==
    /\ \A k \in s3 : k.prefix \in {"landscape", "portrait", "other"}
    /\ \A s \in Slots :
         ProbeFailed(req[s])
            => /\ ~FollowedBy(req[s], "probe", {"remux", "put", "update"})
               /\ \E i \in DOMAIN req[s].ev : IsErrorResponse(req[s].ev[i])

(* C7: a request whose body exceeds the ceiling of its kind is rejected;   *)
(* the bytes buffered in memory or written to a staged file never exceed   *)
(* the ceiling; no blob is published and the record is not updated.        *)
C7_SizeCeiling ==
    \A s \in Slots :
        LET rq == req[s] IN
        /\ rq.mem <= Ceiling(rq) /\ rq.data <= Ceiling(rq)
        /\ rq.spilled <= Ceiling(rq) /\ rq.staged <= Ceiling(rq)
        /\ rq.size > Ceiling(rq)
             => /\ \A j \in DOMAIN rq.ev : rq.ev[j].e \notin BlobWrites \cup RecordWrites
                /\ rq.pc = "done" => \E i \in DOMAIN rq.ev : IsErrorResponse(rq.ev[i])

\* the header as written is in the allow-list of the kind
DeclaredAllowed(rq) ==
    IF rq.kind = "thumbnail" THEN rq.declared \in {s_image_jpeg, s_image_png}
    ELSE rq.declared \in {s_video_mp4}

\* the handler returned on a 415, having created no temp file, written no
\* blob and updated no record; for an owned record 415 is the only response
Rejected415(rq) ==
    /\ rq.pc = "done"
    /\ rq.ev[Len(rq.ev)] = Event("respond", StatusUnsupportedMediaType)
    /\ \A j \in DOMAIN rq.ev :
         rq.ev[j].e \notin {"tmp_create", "tmp_write"} \cup BlobWrites \cup RecordWrites
    /\ (rq.kind = "thumbnail" \/ Has(rq, "owner_ok"))
         => Responses(rq) = <<StatusUnsupportedMediaType>>

(* C8 (as claimed): a declared content type that is not, as written, in    *)
(* the allow-list of the kind is answered 415 with no temp file, blob or   *)
(* record update; only a declared type in the allow-list is published.     *)
C8_DeclaredTypeValidation ==
    \A s \in Slots :
        /\ (Has(req[s], "type_check") /\ ~DeclaredAllowed(req[s])) => Rejected415(req[s])
        /\ (\E j \in DOMAIN req[s].ev : req[s].ev[j].e \in BlobWrites)
             => DeclaredAllowed(req[s])

\* the media type read from the header is in the allow-list of the kind
ParsedAllowed(rq) ==
    IF rq.kind = "thumbnail"
    THEN TrimSpace(Lower(CutBefore(rq.declared, ";"))) \in {s_image_jpeg, s_image_png}
    ELSE TrimSpace(Lower(CutBefore(rq.declared, ";"))) \in {s_video_mp4}

(* C8 (amended): the same with the media type that mime.ParseMediaType     *)
(* reads from the declared header: lower-cased, parameters and             *)
(* surrounding blanks dropped.                                             *)
C8_ParsedTypeValidation ==
    \A s \in Slots :
        /\ (Has(req[s], "type_check") /\ ~ParsedAllowed(req[s])) => Rejected415(req[s])
        /\ (\E j \in DOMAIN req[s].ev : req[s].ev[j].e \in BlobWrites)
             => ParsedAllowed(req[s])

(* C8 witness: the owner's video upload declaring image/gif has been       *)
(* through the type check.                                                 *)
C8_Witness ==
    \E s \in Slots :
        /\ Has(req[s], "type_check") /\ ~ParsedAllowed(req[s])
        /\ Has(req[s], "owner_ok")
        /\ req[s].declared = s_image_gif

\* the bucket the classification rule gives a parsed probe output
ExpectedBucket(run) ==
    IF Len(run.streams) > 0 /\ run.streams[1] = "16:9" THEN "landscape"
    ELSE IF Len(run.streams) > 0 /\ run.streams[1] = "9:16" THEN "portrait"
    ELSE "other"

(* C9: for every probe output that parses, getVideoAspectRatio returns     *)
(* "landscape" iff the first stream's ratio is "16:9", "portrait" iff it   *)
(* is "9:16" and "other" otherwise, also for an empty streams list; it     *)
(* never aborts the handler.                                               *)
C9_ClassificationTotal ==
    \A s \in Slots :
        (req[s].probe # NoProbe /\ req[s].probe.exit = 0 /\ req[s].probe.json)
            => /\ req[s].aspectRatio = ExpectedBucket(req[s].probe)
               /\ ~Has(req[s], "panic")

\* the handler has returned and the only response written is 200
Succeeded(rq) == rq.pc = "done" /\ Responses(rq) = <<StatusOK>>

(* C10: when a thumbnail upload and a video upload of the same owned       *)
(* record run concurrently and both answer 200, the stored record carries  *)
(* both new URLs.                                                          *)
C10_NoLostUpdate ==
    \A s, t \in Slots :
        (/\ req[s].kind = "thumbnail" /\ Succeeded(req[s])
         /\ IsVideo(req[t]) /\ Succeeded(req[t]))
            => /\ db[V1].ThumbnailURL = req[s].video.ThumbnailURL
               /\ db[V1].VideoURL = req[t].video.VideoURL

====
